---------------------------- MODULE Spec2Model ----------------------------
(***************************************************************************)
(* Model of app/urbanomy_api/modules/urban_api_gateway.py: the facade      *)
(* UrbanAPIGateway over the remote Urban API.                              *)
(*                                                                         *)
(* One call of one public coroutine is followed from the call to its       *)
(* return or failure.  Every action is the code that runs between two      *)
(* awaits of urban_api_handler.get: the call up to the first await, and    *)
(* each resumption (with a response, or with the exception the handler     *)
(* raised) up to the next await or to the end of the coroutine.            *)
(*                                                                         *)
(* Python values: a dict is a record, a list a sequence wrapped in         *)
(* [json |-> "array", items |-> ...], None is NoneVal, an int that may be  *)
(* None is wrapped as [int |-> n].                                         *)
(***************************************************************************)
EXTENDS Integers, Sequences, FiniteSets, TLC

VARIABLES pc, op, scenario_id, source, requests, resolved, response,
          source_data, project_id, outcome

vars == <<pc, op, scenario_id, source, requests, resolved, response,
          source_data, project_id, outcome>>

-----------------------------------------------------------------------------
(* Bounds of the explored inputs. *)

\* longest remote source list whose records all carry source and year
MaxLen == 3
\* longest remote source list with records that lack a field
MaxBadLen == 2
\* most features in a functional-zones response
MaxFeatures == 2

ScenarioIds == {101, 102}
ProjectIds == {7}
Years == {2020, 2021, 2023}
\* "GP" stands for any label other than the three the selection rule names
Labels == {"OSM", "PZZ", "User", "GP"}

-----------------------------------------------------------------------------
(* Python values *)

NoneVal == [py |-> "None"]
\* the local has not been assigned yet
Unset == [py |-> "unset"]
\* the awaited urban_api_handler.get raised instead of returning
RaisedInstead == [py |-> "raised"]

\* the argument source: str = None
NoSourceArg == "<None>"
SourceArgs == {NoSourceArg, ""} \cup Labels

\* truthiness of the source argument: None and "" are falsy
SourceGiven(src) == src # NoSourceArg /\ src # ""

Has(d, k) == k \in DOMAIN d

\* dict.get(key) with the default None
DictGet(d, k) == IF Has(d, k) THEN d[k] ELSE NoSourceArg

-----------------------------------------------------------------------------
(* Outcomes of a coroutine *)

Pending == [kind |-> "pending"]
Return(v) == [kind |-> "return", value |-> v]
\* http_exception(status_code, msg, input): the structured error of the app
http_exception(code, msg, input) ==
    [kind |-> "http_exception", status_code |-> code, detail |-> msg, input |-> input]
\* any other exception leaving the coroutine
Raise(type) == [kind |-> "exception", type |-> type]

ScenarioInput(sid) == [scenario_id |-> sid]
SourceInput(src) == [source |-> src]

-----------------------------------------------------------------------------
(* Remote data *)

FullRecords == [source : Labels, year : Years]
PartialRecords == [source : Labels] \cup [year : Years]

RECURSIVE SeqsUpTo(_, _)
SeqsUpTo(S, n) ==
    IF n = 0 THEN {<<>>}
    ELSE LET shorter == SeqsUpTo(S, n - 1)
         IN shorter \cup {Append(s, x) : s \in {t \in shorter : Len(t) = n - 1}, x \in S}

SourceLists == SeqsUpTo(FullRecords, MaxLen) \cup SeqsUpTo(FullRecords \cup PartialRecords, MaxBadLen)

Array(items) == [json |-> "array", items |-> items]
JsonNull == [json |-> "null"]

\* what GET .../functional_zone_sources can resolve to
SourcesResponses == {JsonNull} \cup {Array(l) : l \in SourceLists}

\* "not response"
Falsy(resp) == resp.json = "null" \/ (resp.json = "array" /\ resp.items = <<>>)


-----------------------------------------------------------------------------
(* UrbanAPIGateway._form_source_params *)

\* the rows of df_sources whose source column equals label
RowsOf(sources, label) == {i \in 1..Len(sources) : sources[i].source = label}

\* the rows among idxs whose year is not NaN (the record has a year)
WithYear(sources, idxs) == {i \in idxs : Has(sources[i], "year")}

\* Series.idxmax(): the label of the first occurrence of the maximum, NaN skipped
idxmax(sources, idxs) ==
    CHOOSE i \in WithYear(sources, idxs) :
        /\ \A j \in WithYear(sources, idxs) : sources[j].year <= sources[i].year
        /\ \A j \in WithYear(sources, idxs) : sources[j].year = sources[i].year => i <= j

\* df_sources.loc[idx].to_dict(): the record itself when every record has a year;
\* a year column holding NaN is a float column, and the year comes back as a float
RowToDict(sources, i) ==
    IF \A j \in 1..Len(sources) : Has(sources[j], "year")
    THEN sources[i]
    ELSE [source |-> sources[i].source, year |-> sources[i].year, year_is_float |-> TRUE]

\* df_sources[df_sources["source"] == label]["year"].idxmax(), then .loc[idx].to_dict()
MaxYearOf(sources, label) ==
    IF \A j \in 1..Len(sources) : ~Has(sources[j], "year")
    THEN Raise("KeyError")       \* the frame has no column "year"
    ELSE IF WithYear(sources, RowsOf(sources, label)) = {}
    THEN Raise("ValueError")     \* idxmax of an empty or all-NaN series
    ELSE Return(RowToDict(sources, idxmax(sources, RowsOf(sources, label))))

\* mutant of the selection rule: PZZ before OSM
form_source_params_pzz_first(sources) ==
    IF Len(sources) = 1 THEN Return(sources[1])
    ELSE IF \E i \in 1..Len(sources) : ~Has(sources[i], "source") THEN Raise("KeyError")
    ELSE IF RowsOf(sources, "PZZ") # {} THEN MaxYearOf(sources, "PZZ")
    ELSE IF RowsOf(sources, "OSM") # {} THEN MaxYearOf(sources, "OSM")
    ELSE MaxYearOf(sources, "User")

form_source_params(sources) ==
    IF Len(sources) = 1 THEN Return(sources[1])
    ELSE IF \E i \in 1..Len(sources) : ~Has(sources[i], "source") THEN Raise("KeyError")
    ELSE IF RowsOf(sources, "OSM") # {} THEN MaxYearOf(sources, "OSM")
    ELSE IF RowsOf(sources, "PZZ") # {} THEN MaxYearOf(sources, "PZZ")
    ELSE MaxYearOf(sources, "User")

-----------------------------------------------------------------------------
(* UrbanAPIGateway.get_functional_zone_sources, from the response on *)

Matches(items, src) == {i \in 1..Len(items) : DictGet(items[i], "source") = src}

\* mutant of the explicit lookup: the last match
LastMatch(items, src) ==
    items[CHOOSE i \in Matches(items, src) : \A j \in Matches(items, src) : j <= i]

\* next((s for s in response if s.get("source") == source), None)
FirstMatch(items, src) ==
    items[CHOOSE i \in Matches(items, src) : \A j \in Matches(items, src) : i <= j]

\* mutant: an absent explicit source falls back to automatic selection
functional_zone_sources_fallback(sid, src, resp) ==
    IF Falsy(resp)
    THEN http_exception(404, "No functional zone sources found for scenario_id", ScenarioInput(sid))
    ELSE IF SourceGiven(src) /\ Matches(resp.items, src) # {}
    THEN Return(FirstMatch(resp.items, src))
    ELSE form_source_params(resp.items)

functional_zone_sources(sid, src, resp) ==
    IF Falsy(resp)
    THEN http_exception(404, "No functional zone sources found for scenario_id", ScenarioInput(sid))
    ELSE IF SourceGiven(src)
    THEN IF Matches(resp.items, src) = {}
         THEN http_exception(404, "No data found for the specified source", SourceInput(src))
         ELSE Return(FirstMatch(resp.items, src))
    ELSE form_source_params(resp.items)

-----------------------------------------------------------------------------
(* UrbanAPIGateway.get_functional_zones, after the source lookup *)

\* line 68: "not source_data or 'source' not in source_data or 'year' not in source_data"
\* (a falsy source_data is the empty dict, which has no "source" either)
ValidSource(sd) == Has(sd, "source") /\ Has(sd, "year")

\* the endpoint f".../functional_zones?year={year}&source={source}"
ZonesRequest(sid, sd) ==
    [endpoint |-> "functional_zones", scenario_id |-> sid, source |-> sd.source,
     year |-> sd.year, year_as_float |-> Has(sd, "year_is_float")]

Features(n) == [json |-> "object", features |-> n]
\* an object without the key "features": empty ({}), or holding other keys only
NoFeatures(empty) == [json |-> "object", empty |-> empty]
FeatureList(n) == [json |-> "array", n |-> n]

\* what GET .../functional_zones can resolve to (features are well-formed GeoJSON
\* features; only their number is modelled)
ZonesResponses ==
    {JsonNull} \cup {NoFeatures(e) : e \in BOOLEAN}
               \cup {Features(n) : n \in 0..MaxFeatures}
               \cup {FeatureList(n) : n \in 0..MaxFeatures}

GeoDataFrame(n, crs) == [type |-> "GeoDataFrame", rows |-> n, crs |-> crs]

\* line 106: "not response or 'features' not in response or not response['features']"
ZeroFeatures(resp) ==
    \/ resp.json = "null"
    \/ resp.json = "array" /\ resp.n = 0
    \/ resp.json = "object" /\ ~Has(resp, "features")
    \/ resp.json = "object" /\ Has(resp, "features") /\ resp.features = 0

\* Lines 78-109.  emptyFrameOk: whether the installed geopandas builds a frame from
\* an empty feature list when a crs is given (GeoDataFrame([], crs=...) raises
\* ValueError where no geometry column exists); both outcomes are explored.
functional_zones(sid, resp, emptyFrameOk) ==
    IF resp.json # "object"
    THEN Raise("AttributeError")                 \* response.get on None or on a list
    ELSE IF ~Has(resp, "features") /\ ~resp.empty
    THEN Raise("TypeError")                      \* from_features iterates the dict's keys
    ELSE IF (~Has(resp, "features") \/ resp.features = 0) /\ ~emptyFrameOk
    THEN Raise("ValueError")                     \* from_features([], crs=...)
    ELSE IF ZeroFeatures(resp)
    THEN http_exception(404, "No functional zones found for the given scenario ID", ScenarioInput(sid))
    ELSE Return(GeoDataFrame(resp.features, "EPSG:4326"))

-----------------------------------------------------------------------------
(* UrbanAPIGateway.get_project_id, get_territory, get_indicator_values *)

IntVal(n) == [int |-> n]

Scenario(project) == [json |-> "object", project |-> project]
ScenarioNoProject == [json |-> "object"]
Projects == {NoneVal, [name |-> "p"], [project_id |-> NoneVal]} \cup {[project_id |-> IntVal(p)] : p \in ProjectIds}

\* what GET /api/v1/scenarios/{id} can resolve to
ScenarioResponses == {JsonNull, ScenarioNoProject} \cup {Scenario(p) : p \in Projects}

\* lines 115-120: response.get("project", {}).get("project_id") inside try/except
project_id_of(sid, resp) ==
    IF resp = JsonNull \/ (Has(resp, "project") /\ resp.project = NoneVal)
    THEN http_exception(404, "Project ID is missing in scenario data.", ScenarioInput(sid))
    ELSE IF ~Has(resp, "project") THEN Return(NoneVal)
    ELSE IF ~Has(resp.project, "project_id") THEN Return(NoneVal)
    ELSE Return(resp.project.project_id)

TerritoryRequest(pid) == [endpoint |-> "territory", project_id |-> pid]

Territory(hasGeometry) == [json |-> "object", has_geometry |-> hasGeometry]
\* what GET /api/v1/projects/{id}/territory can resolve to
TerritoryResponses == {JsonNull} \cup {Territory(g) : g \in BOOLEAN}

\* lines 131-140
territory(resp) ==
    IF resp = JsonNull THEN Raise("TypeError")
    ELSE IF ~resp.has_geometry THEN Raise("KeyError")
    ELSE Return(GeoDataFrame(1, "UTM"))

\* what GET .../indicators_values can resolve to: passed through as it is
IndicatorResponses == {JsonNull, [json |-> "object", indicators |-> 0], [json |-> "object", indicators |-> 1]}

\* the exception urban_api_handler.get raises when the remote call fails; the handler
\* lives outside this module, and what it raises passes through unchanged unless an
\* except clause of this module catches it
HandlerError == Raise("HandlerError")

Request(endpoint, sid) == [endpoint |-> endpoint, scenario_id |-> sid]

-----------------------------------------------------------------------------
(* The state machine *)

Init ==
    /\ pc = "idle"
    /\ op = "none"
    /\ scenario_id \in ScenarioIds     \* the scenario the caller asks about
    /\ source = NoSourceArg
    /\ requests = <<>>
    /\ resolved = 0
    /\ response = Unset
    /\ source_data = Unset
    /\ project_id = Unset
    /\ outcome = Pending

\* the coroutine ends: it returns a value or an exception leaves it
Finish(o) ==
    /\ outcome' = o
    /\ pc' = "done"

\* urban_api_handler.get(endpoint) is awaited
Get(req, at) ==
    /\ requests' = Append(requests, req)
    /\ pc' = at

\* the awaited get resolves with resp, or raises
Resume(resp) ==
    /\ response' = resp
    /\ resolved' = resolved + 1

\* lines 29-36, called by the user
call_get_functional_zone_sources ==
    /\ pc = "idle"
    /\ op' = "get_functional_zone_sources"
    /\ source' \in SourceArgs
    /\ Get(Request("functional_zone_sources", scenario_id), "await_sources")
    /\ UNCHANGED <<scenario_id, resolved, response, source_data, project_id, outcome>>

\* line 66, then lines 29-36 of the callee (is_context is read nowhere)
call_get_functional_zones ==
    /\ pc = "idle"
    /\ op' = "get_functional_zones"
    /\ source' \in SourceArgs
    /\ Get(Request("functional_zone_sources", scenario_id), "await_sources")
    /\ UNCHANGED <<scenario_id, resolved, response, source_data, project_id, outcome>>

\* lines 38-48; in get_functional_zones, then lines 66-77
sources_resolved ==
    /\ pc = "await_sources"
    /\ \E resp \in SourcesResponses :
         LET o == functional_zone_sources(scenario_id, source, resp)
         IN IF op = "get_functional_zone_sources" \/ o.kind # "return"
            THEN /\ Resume(resp)
                 /\ Finish(o)
                 /\ UNCHANGED <<requests, source_data>>
            ELSE \* the callee's frame, and its response, are gone
                 /\ Resume(Unset)
                 /\ source_data' = o.value
                 /\ IF ValidSource(o.value)
                    THEN /\ Get(ZonesRequest(scenario_id, o.value), "await_zones")
                         /\ UNCHANGED outcome
                    ELSE /\ Finish(http_exception(404, "No valid source found for the given scenario ID",
                                                  ScenarioInput(scenario_id)))
                         /\ UNCHANGED requests
    /\ UNCHANGED <<op, scenario_id, source, project_id>>

\* line 36 raises: nothing catches it, in either coroutine
sources_raised ==
    /\ pc = "await_sources"
    /\ Resume(RaisedInstead)
    /\ Finish(HandlerError)
    /\ UNCHANGED <<op, scenario_id, source, requests, source_data, project_id>>

\* lines 78-109
zones_resolved ==
    /\ pc = "await_zones"
    /\ \E resp \in ZonesResponses, emptyFrameOk \in BOOLEAN :
         /\ Resume(resp)
         /\ Finish(functional_zones(scenario_id, resp, emptyFrameOk))
    /\ UNCHANGED <<op, scenario_id, source, requests, source_data, project_id>>

\* line 77 raises: nothing catches it
zones_raised ==
    /\ pc = "await_zones"
    /\ Resume(RaisedInstead)
    /\ Finish(HandlerError)
    /\ UNCHANGED <<op, scenario_id, source, requests, source_data, project_id>>

\* lines 112-114
call_get_project_id ==
    /\ pc = "idle"
    /\ op' = "get_project_id"
    /\ Get(Request("scenario", scenario_id), "await_scenario")
    /\ UNCHANGED <<scenario_id, source, resolved, response, source_data, project_id, outcome>>

\* line 124, then lines 112-114 of the callee
call_get_territory ==
    /\ pc = "idle"
    /\ op' = "get_territory"
    /\ Get(Request("scenario", scenario_id), "await_scenario")
    /\ UNCHANGED <<scenario_id, source, resolved, response, source_data, project_id, outcome>>

\* lines 115-120; in get_territory, then lines 124-127
scenario_resolved ==
    /\ pc = "await_scenario"
    /\ \E resp \in ScenarioResponses :
         LET o == project_id_of(scenario_id, resp)
         IN IF op = "get_project_id" \/ o.kind # "return"
            THEN /\ Resume(resp)
                 /\ Finish(o)
                 /\ UNCHANGED <<requests, project_id>>
            ELSE /\ Resume(Unset)
                 /\ project_id' = o.value
                 /\ Get(TerritoryRequest(o.value), "await_territory")
                 /\ UNCHANGED outcome
    /\ UNCHANGED <<op, scenario_id, source, source_data>>

\* line 114 raises, outside the try of line 115: nothing catches it
scenario_raised ==
    /\ pc = "await_scenario"
    /\ Resume(RaisedInstead)
    /\ Finish(HandlerError)
    /\ UNCHANGED <<op, scenario_id, source, requests, source_data, project_id>>

\* lines 131-140
territory_resolved ==
    /\ pc = "await_territory"
    /\ \E resp \in TerritoryResponses :
         /\ Resume(resp)
         /\ Finish(territory(resp))
    /\ UNCHANGED <<op, scenario_id, source, requests, source_data, project_id>>

\* mutant: the failed territory request is issued again
territory_raised_retry ==
    /\ pc = "await_territory"
    /\ Resume(RaisedInstead)
    /\ Get(TerritoryRequest(project_id), "await_territory")
    /\ UNCHANGED <<op, scenario_id, source, source_data, project_id, outcome>>

\* lines 128-129
territory_raised ==
    /\ pc = "await_territory"
    /\ Resume(RaisedInstead)
    /\ Finish(http_exception(404, "No territory found for the given scenario ID", ScenarioInput(scenario_id)))
    /\ UNCHANGED <<op, scenario_id, source, requests, source_data, project_id>>

\* lines 143-146
call_get_indicator_values ==
    /\ pc = "idle"
    /\ op' = "get_indicator_values"
    /\ Get(Request("indicators_values", scenario_id), "await_indicators")
    /\ UNCHANGED <<scenario_id, source, resolved, response, source_data, project_id, outcome>>

\* line 149
indicators_resolved ==
    /\ pc = "await_indicators"
    /\ \E resp \in IndicatorResponses :
         /\ Resume(resp)
         /\ Finish(Return(resp))
    /\ UNCHANGED <<op, scenario_id, source, requests, source_data, project_id>>

\* lines 147-148
indicators_raised ==
    /\ pc = "await_indicators"
    /\ Resume(RaisedInstead)
    /\ Finish(http_exception(404, "No indicators values found for the given scenario ID",
                             ScenarioInput(scenario_id)))
    /\ UNCHANGED <<op, scenario_id, source, requests, source_data, project_id>>

Next ==
    \/ call_get_functional_zone_sources
    \/ call_get_functional_zones
    \/ sources_resolved
    \/ sources_raised
    \/ zones_resolved
    \/ zones_raised
    \/ call_get_project_id
    \/ call_get_territory
    \/ scenario_resolved
    \/ scenario_raised
    \/ territory_resolved
    \/ territory_raised
    \/ call_get_indicator_values
    \/ indicators_resolved
    \/ indicators_raised

Spec == Init /\ [][Next]_vars

-----------------------------------------------------------------------------
(* Properties *)

Done == pc = "done"

IsNotFound(o) == o.kind = "http_exception" /\ o.status_code = 404
NotFoundFor(o, input) == IsNotFound(o) /\ o.input = input

\* the frame that ended the call received a JSON array
GotArray == Has(response, "json") /\ response.json = "array"

KnownLabels == {"OSM", "PZZ", "User"}

\* v is a record of items labelled label, and no record so labelled has a later year
MaxYearRecord(items, v, label) ==
    /\ \E i \in 1..Len(items) : items[i] = v
    /\ v.source = label
    /\ \A j \in 1..Len(items) : items[j].source = label => items[j].year <= v.year

\* the case of C1: automatic selection over well-formed records, one record or a known label
SelectionCase ==
    /\ Done
    /\ op = "get_functional_zone_sources"
    /\ ~SourceGiven(source)
    /\ GotArray
    /\ response.items # <<>>
    /\ \A i \in 1..Len(response.items) : response.items[i] \in FullRecords
    /\ \/ Len(response.items) = 1
       \/ \E i \in 1..Len(response.items) : response.items[i].source \in KnownLabels

\* C1: automatic selection returns the only record unchanged; otherwise the latest OSM
\* record if there is an OSM record, else the latest PZZ record if there is a PZZ
\* record, else the latest User record.
C1_SourceSelection ==
    SelectionCase =>
        /\ outcome.kind = "return"
        /\ LET items == response.items
               v == outcome.value
               any(label) == \E i \in 1..Len(items) : items[i].source = label
           IN IF Len(items) = 1 THEN v = items[1]
              ELSE IF any("OSM") THEN MaxYearRecord(items, v, "OSM")
              ELSE IF any("PZZ") THEN MaxYearRecord(items, v, "PZZ")
              ELSE MaxYearRecord(items, v, "User")

\* an OSM record was chosen among three records: over an earlier OSM record and over
\* a PZZ or User record of a later year
C1_Witness ==
    /\ SelectionCase
    /\ Len(response.items) = 3
    /\ outcome.kind = "return"
    /\ outcome.value.source = "OSM"
    /\ \E i, j \in 1..Len(response.items) :
         /\ response.items[i].source = "OSM"
         /\ response.items[i].year < outcome.value.year
         /\ response.items[j].source \in {"PZZ", "User"}
         /\ response.items[j].year > outcome.value.year

\* get_functional_zone_sources ended on a resolved response
SourcesCase == Done /\ op = "get_functional_zone_sources" /\ Has(response, "json")

NoRecordOf(items, src) == \A i \in 1..Len(items) : DictGet(items[i], "source") # src

\* C2: an explicit non-empty source that no record of the list carries fails with
\* NotFound (404) carrying the source name, whatever the list; an empty source list
\* fails with NotFound (404) carrying the scenario id, with or without a source.
C2_ExplicitSourceNotFound ==
    SourcesCase =>
        /\ Falsy(response) => NotFoundFor(outcome, ScenarioInput(scenario_id))
        /\ (~Falsy(response) /\ SourceGiven(source) /\ NoRecordOf(response.items, source))
              => NotFoundFor(outcome, SourceInput(source))

\* the explicit source is absent from a list on which automatic selection succeeds
C2_Witness ==
    /\ SourcesCase
    /\ ~Falsy(response)
    /\ SourceGiven(source)
    /\ NoRecordOf(response.items, source)
    /\ form_source_params(response.items).kind = "return"
    /\ NotFoundFor(outcome, SourceInput(source))

\* C10: with an explicit source the first record of the list, in order, that carries
\* the source is returned as it is; neither priority nor year is looked at.
C10_ExplicitSourceFirstMatch ==
    (SourcesCase /\ ~Falsy(response) /\ SourceGiven(source) /\ ~NoRecordOf(response.items, source)) =>
        \E i \in 1..Len(response.items) :
            /\ DictGet(response.items[i], "source") = source
            /\ \A j \in 1..(i - 1) : DictGet(response.items[j], "source") # source
            /\ outcome = Return(response.items[i])

\* two records carry the source; the earlier, of the lesser year, is returned, and
\* automatic selection over the same list returns the later one
C10_Witness ==
    /\ SourcesCase
    /\ SourceGiven(source)
    /\ GotArray
    /\ \E i, j \in 1..Len(response.items) :
         /\ i < j
         /\ response.items[i] \in FullRecords
         /\ response.items[j] \in FullRecords
         /\ response.items[i].source = source
         /\ response.items[j].source = source
         /\ response.items[i].year < response.items[j].year
         /\ outcome = Return(response.items[i])
         /\ form_source_params(response.items) = Return(response.items[j])

SingleRequestOps == {"get_functional_zone_sources", "get_project_id", "get_indicator_values"}

\* C8 as stated: every operation issues exactly one remote GET between its call and
\* its return or failure.
C8_OneRequestPerOperation == Done => Len(requests) = 1

\* C8 amended: the requests are issued one at a time; get_functional_zone_sources,
\* get_project_id and get_indicator_values issue exactly one; get_functional_zones and
\* get_territory issue the lookup and then, only if the lookup returned (for
\* get_functional_zones: a record with source and year), one second request.
C8_RequestsPerOperation ==
    /\ Len(requests) - resolved \in {0, 1}
    /\ pc = "idle" <=> requests = <<>>
    /\ Done =>
        /\ resolved = Len(requests)
        /\ op \in SingleRequestOps => Len(requests) = 1
        /\ op = "get_functional_zones" =>
              /\ Len(requests) \in {1, 2}
              /\ requests[1].endpoint = "functional_zone_sources"
              /\ Len(requests) = 2 <=> (Has(source_data, "source") /\ Has(source_data, "year"))
              /\ Len(requests) = 2 => requests[2].endpoint = "functional_zones"
        /\ op = "get_territory" =>
              /\ Len(requests) \in {1, 2}
              /\ requests[1].endpoint = "scenario"
              /\ Len(requests) = 2 <=> project_id # Unset
              /\ Len(requests) = 2 => requests[2].endpoint = "territory"

\* get_territory ended after its second request was answered with an error
C8_Witness ==
    /\ Done
    /\ op = "get_territory"
    /\ Len(requests) = 2
    /\ resolved = 2
    /\ response = RaisedInstead

\* C3: get_functional_zones fails with NotFound (404) whenever the functional-zones
\* response holds no feature: an empty response, no features field, an empty list.
C3_ZeroFeaturesNotFound ==
    (Done /\ op = "get_functional_zones" /\ Len(requests) = 2 /\ Has(response, "json") /\ ZeroFeatures(response))
        => IsNotFound(outcome)

\* C4: automatic selection over two or more records (each with source and year),
\* none labelled OSM, PZZ or User, ends in NotFound (404).
C4_NoKnownLabelNotFound ==
    (/\ Done
     /\ op \in {"get_functional_zone_sources", "get_functional_zones"}
     /\ Len(requests) = 1
     /\ ~SourceGiven(source)
     /\ GotArray
     /\ Len(response.items) >= 2
     /\ \A i \in 1..Len(response.items) :
           response.items[i] \in FullRecords /\ response.items[i].source \notin KnownLabels)
        => IsNotFound(outcome)

\* C5: get_territory fails with NotFound (404) carrying the scenario id whenever the
\* scenario lookup or the territory lookup raises.
C5_TerritoryLookupErrorNotFound ==
    (Done /\ op = "get_territory" /\ response = RaisedInstead)
        => NotFoundFor(outcome, ScenarioInput(scenario_id))

\* C6: get_project_id never returns an absent project id (a scenario without project
\* or project_id is NotFound), and no territory request is issued for one.
C6_MissingProjectIdNotFound ==
    /\ \A i \in 1..Len(requests) :
          requests[i].endpoint = "territory" => requests[i].project_id # NoneVal
    /\ (Done /\ op = "get_project_id") => outcome # Return(NoneVal)
    /\ (Done /\ op = "get_project_id" /\ Has(response, "json") /\ response.json = "object"
           /\ (~Has(response, "project") \/ ~Has(response.project, "project_id")))
          => IsNotFound(outcome)

\* C7: every failure of every operation is a NotFound (404), and the operation ends
\* with it: nothing is requested and nothing returned afterwards.
C7_EveryFailureIsNotFound ==
    (Done /\ outcome.kind # "return") => (IsNotFound(outcome) /\ resolved = Len(requests))

\* C9: the functional-zones request follows a successful source lookup for the same
\* scenario and carries the year and source of the record the lookup returned; when
\* the lookup fails or the record lacks source or year, no such request is issued and
\* get_functional_zones fails with NotFound (404).
C9_ZonesRequestFollowsSourceLookup ==
    /\ \A i \in 1..Len(requests) :
          requests[i].endpoint = "functional_zones" =>
              /\ i = 2
              /\ requests[1] = Request("functional_zone_sources", requests[i].scenario_id)
              /\ Has(source_data, "source") /\ Has(source_data, "year")
              /\ requests[i].source = source_data.source
              /\ requests[i].year = source_data.year
    /\ (Done /\ op = "get_functional_zones" /\ Len(requests) = 1) => IsNotFound(outcome)

\* the part of C9 that the code keeps: the order and the parameters of the request
C9_RequestPart ==
    \A i \in 1..Len(requests) :
        requests[i].endpoint = "functional_zones" =>
            /\ i = 2
            /\ requests[1] = Request("functional_zone_sources", requests[i].scenario_id)
            /\ Has(source_data, "source") /\ Has(source_data, "year")
            /\ requests[i].source = source_data.source
            /\ requests[i].year = source_data.year

=============================================================================
